---- MODULE Spec2Model ----
(***************************************************************************)
(* Model of the nominatim Go client: the three handlers of defaultClient   *)
(* (Search, Reverse, CheckStatus), each racing a worker goroutine against  *)
(* the caller's context over two channels of capacity 1, and the           *)
(* buildQueryString methods of SearchQuery and ReverseQuery.               *)
(***************************************************************************)
EXTENDS Integers, Sequences, FiniteSets, TLC

\* ------------------------------------------------------------------
\* Bounds
\* ------------------------------------------------------------------
\* largest number of elements in a JSON array of a response body
MaxResults == 1
\* longest free-form text a caller stores into a query
MaxTextLen == 2
\* longest AcceptLanguage / ExcludedPlaces list a caller stores
MaxListLen == 2
\* number of field assignments a caller makes to a fresh query
MaxSets == 2
\* how far around 0 and around 50, the two edges of the clamp, the Limit
\* values range
LimitsBelow == 2
LimitsAbove == 2

\* the handler invocations a client can have in flight
CallIds == {1, 2}

\* ------------------------------------------------------------------
\* Program constants
\* ------------------------------------------------------------------
StatusNoDatabase == 700
StatusNoValue == 704
\* make(chan ..., 1): the capacity of each channel
ChanCap == 1

Ops == {"Search", "Reverse", "CheckStatus"}

\* ------------------------------------------------------------------
\* Values and errors
\* ------------------------------------------------------------------
\* type Error struct { Code int; Message string }
ErrorObjs == { [Code |-> 0, Message |-> ""],
               [Code |-> StatusNoValue, Message |-> "no value"],
               [Code |-> -1, Message |-> "negative"] }
ZeroError == [Code |-> 0, Message |-> ""]

\* the error values a handler can return
NilErr == [kind |-> "nil", Code |-> 0, Message |-> ""]
TransportErr == [kind |-> "transport", Code |-> 0, Message |-> ""]
DecodeErr == [kind |-> "decode", Code |-> 0, Message |-> ""]
ServiceErr(e) == [kind |-> "nominatim.Error", Code |-> e.Code, Message |-> e.Message]
\* ctx.Err(): Canceled or DeadlineExceeded once the context is done
CtxErr(c) == [kind |-> c, Code |-> 0, Message |-> ""]
CtxCauses == {"context canceled", "context deadline exceeded"}

\* type Result struct: the fields the model distinguishes
ZeroResult == [type |-> "Result", PlaceId |-> 0]
\* type Status struct
ZeroStatus == [type |-> "Status", Status |-> 0]
\* []Result: a nil slice is distinct from an empty one
NilSlice == [type |-> "slice", nil |-> TRUE, elems |-> <<>>]
Slice(s) == [type |-> "slice", nil |-> FALSE, elems |-> s]

\* the zero value each handler returns next to an error
ZeroValue(o) ==
    CASE o = "Search" -> NilSlice
      [] o = "Reverse" -> ZeroResult
      [] OTHER -> ZeroStatus

\* ------------------------------------------------------------------
\* Response bodies (abstract JSON) and json.Decoder.Decode
\* ------------------------------------------------------------------
\* a JSON field is absent, a number, or a string where a number is expected
FieldShapes == {"absent", "num", "str"}
JsonObjs == [place_id : FieldShapes, status : FieldShapes, error : ErrorObjs]
EmptyObj == [place_id |-> "absent", status |-> "absent", error |-> ZeroError]

RECURSIVE SeqsUpTo(_, _)
SeqsUpTo(S, n) ==
    IF n = 0 THEN {<<>>}
    ELSE LET shorter == SeqsUpTo(S, n - 1)
         IN shorter \cup { Append(s, x) : s \in { t \in shorter : Len(t) = n - 1 }, x \in S }

\* the elements of an array body: objects with the fields of a Result only
\* (any other field of an element is unknown to Result and skipped)
ResultObjs == { o \in JsonObjs : o.status = "absent" /\ o.error = ZeroError }

\* top: "bad" (not JSON), "null", "obj" or "arr"
Bodies ==
    { [top |-> "bad", obj |-> EmptyObj, elems |-> <<>>],
      [top |-> "null", obj |-> EmptyObj, elems |-> <<>>] }
    \cup { [top |-> "obj", obj |-> o, elems |-> <<>>] : o \in JsonObjs }
    \cup { [top |-> "arr", obj |-> EmptyObj, elems |-> s] : s \in SeqsUpTo(ResultObjs, MaxResults) }

\* decoding one JSON object into a Result: a mistyped field is reported and
\* skipped, the remaining fields are still stored
ObjToResult(o) == [type |-> "Result", PlaceId |-> IF o.place_id = "num" THEN 1 ELSE 0]
ObjToStatus(o) == [type |-> "Status", Status |-> IF o.status = "num" THEN StatusNoDatabase ELSE 0]

\* Decode(&results) with results := make([]Result, 0)
DecodeSearch(b) ==
    CASE b.top = "bad" -> [val |-> Slice(<<>>), err |-> TRUE, Error |-> ZeroError]
      [] b.top = "null" -> [val |-> NilSlice, err |-> FALSE, Error |-> ZeroError]
      [] b.top = "obj" -> [val |-> Slice(<<>>), err |-> TRUE, Error |-> ZeroError]
      [] OTHER ->
           [val |-> Slice([i \in 1..Len(b.elems) |-> ObjToResult(b.elems[i])]),
            err |-> \E i \in 1..Len(b.elems) : b.elems[i].place_id = "str",
            Error |-> ZeroError]

\* Decode(result) with result := &struct{ Result; Error Error `json:"error"` }{}
DecodeReverse(b) ==
    CASE b.top = "bad" -> [val |-> ZeroResult, err |-> TRUE, Error |-> ZeroError]
      [] b.top = "null" -> [val |-> ZeroResult, err |-> FALSE, Error |-> ZeroError]
      [] b.top = "arr" -> [val |-> ZeroResult, err |-> TRUE, Error |-> ZeroError]
      [] OTHER -> [val |-> ObjToResult(b.obj), err |-> b.obj.place_id = "str",
                   Error |-> b.obj.error]

\* Decode(status) with status := &Status{}
DecodeStatus(b) ==
    CASE b.top = "bad" -> [val |-> ZeroStatus, err |-> TRUE, Error |-> ZeroError]
      [] b.top = "null" -> [val |-> ZeroStatus, err |-> FALSE, Error |-> ZeroError]
      [] b.top = "arr" -> [val |-> ZeroStatus, err |-> TRUE, Error |-> ZeroError]
      [] OTHER -> [val |-> ObjToStatus(b.obj), err |-> b.obj.status = "str",
                   Error |-> ZeroError]

Decode(o, b) ==
    CASE o = "Search" -> DecodeSearch(b)
      [] o = "Reverse" -> DecodeReverse(b)
      [] OTHER -> DecodeStatus(b)

\* d.client.Get(endpoint): a transport failure or a response with a body
Responses == { [ok |-> FALSE, body |-> [top |-> "bad", obj |-> EmptyObj, elems |-> <<>>]] }
             \cup { [ok |-> TRUE, body |-> b] : b \in Bodies }
NoDecoded == [val |-> ZeroStatus, err |-> FALSE, Error |-> ZeroError]
NoRet == [val |-> ZeroStatus, err |-> NilErr]

\* ------------------------------------------------------------------
\* Query strings: url.Values, strings.Join, strconv.Itoa, Encode
\* ------------------------------------------------------------------
\* a Go string is a sequence of one-character strings
Str1(ch) == <<ch>>
Digits == <<"0", "1", "2", "3", "4", "5", "6", "7", "8", "9">>

\* strconv.Itoa
RECURSIVE ItoaNat(_)
ItoaNat(n) == IF n < 10 THEN <<Digits[n + 1]>> ELSE ItoaNat(n \div 10) \o <<Digits[(n % 10) + 1]>>
Itoa(n) == IF n < 0 THEN <<"-">> \o ItoaNat(-n) ELSE ItoaNat(n)

\* mutant: the elements are concatenated without the separator
RECURSIVE Join_NoSep(_, _)
Join_NoSep(list, sep) == IF Len(list) = 0 THEN <<>> ELSE list[1] \o Join_NoSep(Tail(list), sep)

\* strings.Join(list, sep)
RECURSIVE Join(_, _)
Join(list, sep) ==
    IF Len(list) = 0 THEN <<>>
    ELSE IF Len(list) = 1 THEN list[1]
    ELSE list[1] \o sep \o Join(Tail(list), sep)

\* url.QueryEscape: a space becomes "+", reserved bytes become %XX
EscapeChar(ch) ==
    CASE ch = " " -> <<"+">>
      [] ch = "," -> <<"%", "2", "C">>
      [] ch = "&" -> <<"%", "2", "6">>
      [] ch = "=" -> <<"%", "3", "D">>
      [] ch = "+" -> <<"%", "2", "B">>
      [] ch = "%" -> <<"%", "2", "5">>
      [] OTHER -> <<ch>>
RECURSIVE QueryEscape(_)
QueryEscape(s) == IF s = <<>> THEN <<>> ELSE EscapeChar(Head(s)) \o QueryEscape(Tail(s))

\* the wire keys
keyAddressDetails == "addressdetails"
keyExtraTags == "extratags"
keyNameDetails == "namedetails"
keyAcceptLanguage == "accept-language"
keyExcludePlaces == "exclude_place_ids"
keyFreeFormQuery == "q"
keyStreet == "street"
keyCity == "city"
keyCounty == "county"
keyState == "state"
keyCountry == "country"
keyPostalCode == "postalcode"
keyLimit == "limit"
keyLatitude == "lat"
keyLongitude == "lon"
keyFormat == "format"
defaultFormat == <<"j", "s", "o", "n", "v", "2">>

\* every key, in the byte order url.Values.Encode sorts keys into
SortedKeys ==
    << keyAcceptLanguage, keyAddressDetails, keyCity, keyCountry, keyCounty,
       keyExcludePlaces, keyExtraTags, keyFormat, keyLatitude, keyLimit,
       keyLongitude, keyNameDetails, keyPostalCode, keyFreeFormQuery, keyState,
       keyStreet >>

\* url.Values{} is a map from a key to the list of its values;
\* url.Values.Set replaces the list of a key by the single value v
EmptyValues == [k \in {} |-> <<>>]
Set(vals, k, v) == [x \in DOMAIN vals \cup {k} |-> IF x = k THEN <<v>> ELSE vals[x]]
\* a conditional Set, for the `if cond { queryStr.Set(k, v) }` statements
SetIf(cond, vals, k, v) == IF cond THEN Set(vals, k, v) ELSE vals

\* the orders in which `for k := range v` may visit the keys of a map: Go
\* leaves the order unspecified, a run picks one
ReverseSeq(s) == [i \in 1..Len(s) |-> s[Len(s) + 1 - i]]
Rotate(s, n) == [i \in 1..Len(s) |-> s[((i + n - 1) % Len(s)) + 1]]
MapSeeds == { ReverseSeq(SortedKeys), Rotate(SortedKeys, 5) }
RangeKeys(vals, seed) == SelectSeq(seed, LAMBDA k : k \in DOMAIN vals)

\* a < b in byte order
KeyRank(k) == CHOOSE i \in 1..Len(SortedKeys) : SortedKeys[i] = k
KeyLess(a, b) == KeyRank(a) < KeyRank(b)

\* sort.Strings(keys)
RECURSIVE InsertSorted(_, _)
InsertSorted(k, sorted) ==
    IF sorted = <<>> THEN <<k>>
    ELSE IF KeyLess(k, Head(sorted)) THEN <<k>> \o sorted
    ELSE <<Head(sorted)>> \o InsertSorted(k, Tail(sorted))
\* mutant: the keys are written in the order the map was ranged over
SortStrings_None(keys) == keys

RECURSIVE SortStrings(_)
SortStrings(keys) ==
    IF keys = <<>> THEN <<>> ELSE InsertSorted(Head(keys), SortStrings(Tail(keys)))

\* the key=escaped-value pairs of the keys, every value of a key in turn
\* (the keys hold no byte that QueryEscape changes)
RECURSIVE EncodePairs(_, _)
EncodePairs(vals, keys) ==
    IF keys = <<>> THEN <<>>
    ELSE [i \in 1..Len(vals[Head(keys)]) |->
             [key |-> Head(keys), value |-> QueryEscape(vals[Head(keys)][i])]]
         \o EncodePairs(vals, Tail(keys))

\* url.Values.Encode: the keys are collected by ranging over the map, sorted,
\* and written out as key=escaped-value pairs
Encode(vals, seed) == EncodePairs(vals, SortStrings(RangeKeys(vals, seed)))

\* mutant: no upper clamp
ClampLimit_NoMax(limit) == IF limit < 0 THEN 10 ELSE limit

\* mutant: a negative limit is replaced by 0
ClampLimit_DefaultZero(limit) == IF limit < 0 THEN 0 ELSE IF limit > 50 THEN 50 ELSE limit

\* mutant: a negative limit is sent as it is
ClampLimit_NegativeKept(limit) == IF limit > 50 THEN 50 ELSE limit

\* the limit that is sent for a non-zero Limit
ClampLimit(limit) ==
    IF limit < 0 THEN 10
    ELSE IF limit > 50 THEN 50
    ELSE limit

\* mutant: the structured fields are emitted without the FreeFormQuery == "" test
SetPlaceKeys_NoPriority(q, v0) ==
    LET v1 == SetIf(q.FreeFormQuery # <<>>, v0, keyFreeFormQuery, q.FreeFormQuery)
        v2 == SetIf(q.Street # <<>>, v1, keyStreet, q.Street)
        v3 == SetIf(q.City # <<>>, v2, keyCity, q.City)
        v4 == SetIf(q.County # <<>>, v3, keyCounty, q.County)
        v5 == SetIf(q.State # <<>>, v4, keyState, q.State)
        v6 == SetIf(q.Country # <<>>, v5, keyCountry, q.Country)
    IN SetIf(q.PostalCode # <<>>, v6, keyPostalCode, q.PostalCode)

\* mutant: the County field is stored under the key of Country
SetPlaceKeys_CountyAsCountry(q, v0) ==
    LET v1 == SetIf(q.FreeFormQuery # <<>>, v0, keyFreeFormQuery, q.FreeFormQuery)
        v2 == SetIf(q.FreeFormQuery = <<>> /\ q.Street # <<>>, v1, keyStreet, q.Street)
        v3 == SetIf(q.FreeFormQuery = <<>> /\ q.City # <<>>, v2, keyCity, q.City)
        v4 == SetIf(q.FreeFormQuery = <<>> /\ q.County # <<>>, v3, keyCountry, q.County)
        v5 == SetIf(q.FreeFormQuery = <<>> /\ q.State # <<>>, v4, keyState, q.State)
        v6 == SetIf(q.FreeFormQuery = <<>> /\ q.Country # <<>>, v5, keyCountry, q.Country)
    IN SetIf(q.FreeFormQuery = <<>> /\ q.PostalCode # <<>>, v6, keyPostalCode, q.PostalCode)

\* the free-form / structured part of SearchQuery.buildQueryString
SetPlaceKeys(q, v0) ==
    LET v1 == SetIf(q.FreeFormQuery # <<>>, v0, keyFreeFormQuery, q.FreeFormQuery)
        v2 == SetIf(q.FreeFormQuery = <<>> /\ q.Street # <<>>, v1, keyStreet, q.Street)
        v3 == SetIf(q.FreeFormQuery = <<>> /\ q.City # <<>>, v2, keyCity, q.City)
        v4 == SetIf(q.FreeFormQuery = <<>> /\ q.County # <<>>, v3, keyCounty, q.County)
        v5 == SetIf(q.FreeFormQuery = <<>> /\ q.State # <<>>, v4, keyState, q.State)
        v6 == SetIf(q.FreeFormQuery = <<>> /\ q.Country # <<>>, v5, keyCountry, q.Country)
    IN SetIf(q.FreeFormQuery = <<>> /\ q.PostalCode # <<>>, v6, keyPostalCode, q.PostalCode)

\* mutant: the "0" of a false modifier is added next to the "1" (url.Values.Add)
SetFlagKeys_Add(q, v0) ==
    LET Add(vals, k, v) == [vals EXCEPT ![k] = Append(@, v)]
        v1 == Set(v0, keyAddressDetails, Str1("1"))
        v2 == IF ~q.AddressDetails THEN Add(v1, keyAddressDetails, Str1("0")) ELSE v1
        v3 == Set(v2, keyExtraTags, Str1("1"))
        v4 == IF ~q.ExtraTags THEN Add(v3, keyExtraTags, Str1("0")) ELSE v3
        v5 == Set(v4, keyNameDetails, Str1("1"))
    IN IF ~q.NameDetails THEN Add(v5, keyNameDetails, Str1("0")) ELSE v5

\* the three boolean modifiers, for both query types
SetFlagKeys(q, v0) ==
    LET v1 == SetIf(~q.AddressDetails, Set(v0, keyAddressDetails, Str1("1")),
                    keyAddressDetails, Str1("0"))
        v2 == SetIf(~q.ExtraTags, Set(v1, keyExtraTags, Str1("1")),
                    keyExtraTags, Str1("0"))
    IN SetIf(~q.NameDetails, Set(v2, keyNameDetails, Str1("1")),
             keyNameDetails, Str1("0"))

\* func (q SearchQuery) buildQueryString() string
SearchBuildQueryString(q, seed) ==
    LET v0 == Set(EmptyValues, keyFormat, defaultFormat)
        v1 == SetPlaceKeys(q, v0)
        v2 == SetFlagKeys(q, v1)
        v3 == SetIf(Len(q.AcceptLanguage) > 0, v2, keyAcceptLanguage,
                    Join(q.AcceptLanguage, Str1(",")))
        v4 == SetIf(Len(q.ExcludedPlaces) > 0, v3, keyExcludePlaces,
                    Join(q.ExcludedPlaces, Str1(",")))
        v5 == SetIf(q.Limit # 0, v4, keyLimit, Itoa(ClampLimit(q.Limit)))
    IN Encode(v5, seed)

\* mutant: the format key is not set
ReverseBuildQueryString_NoFormat(q, seed) ==
    LET v1 == Set(EmptyValues, keyLatitude, q.Latitude)
        v2 == Set(v1, keyLongitude, q.Longitude)
        v3 == SetFlagKeys(q, v2)
        v4 == SetIf(Len(q.AcceptLanguage) > 0, v3, keyAcceptLanguage,
                    Join(q.AcceptLanguage, Str1(",")))
    IN Encode(v4, seed)

\* mutant: lat and lon are set only when they are not empty
ReverseBuildQueryString_SkipEmpty(q, seed) ==
    LET v0 == Set(EmptyValues, keyFormat, defaultFormat)
        v1 == SetIf(q.Latitude # <<>>, v0, keyLatitude, q.Latitude)
        v2 == SetIf(q.Longitude # <<>>, v1, keyLongitude, q.Longitude)
        v3 == SetFlagKeys(q, v2)
        v4 == SetIf(Len(q.AcceptLanguage) > 0, v3, keyAcceptLanguage,
                    Join(q.AcceptLanguage, Str1(",")))
    IN Encode(v4, seed)

\* func (q ReverseQuery) buildQueryString() string
ReverseBuildQueryString(q, seed) ==
    LET v0 == Set(EmptyValues, keyFormat, defaultFormat)
        v1 == Set(v0, keyLatitude, q.Latitude)
        v2 == Set(v1, keyLongitude, q.Longitude)
        v3 == SetFlagKeys(q, v2)
        v4 == SetIf(Len(q.AcceptLanguage) > 0, v3, keyAcceptLanguage,
                    Join(q.AcceptLanguage, Str1(",")))
    IN Encode(v4, seed)

\* func NewReverseQuery(latitude, longitude string) *ReverseQuery
NewReverseQuery(latitude, longitude) ==
    [ Latitude |-> latitude, Longitude |-> longitude,
      AddressDetails |-> TRUE, ExtraTags |-> FALSE, NameDetails |-> FALSE,
      AcceptLanguage |-> << <<"e", "n">> >> ]

\* func NewSearchQuery() *SearchQuery
NewSearchQuery ==
    [ Street |-> <<>>, City |-> <<>>, County |-> <<>>, State |-> <<>>,
      Country |-> <<>>, PostalCode |-> <<>>, FreeFormQuery |-> <<>>,
      AddressDetails |-> TRUE, ExtraTags |-> FALSE, NameDetails |-> FALSE,
      AcceptLanguage |-> << <<"e", "n">> >>, ExcludedPlaces |-> <<>>,
      Limit |-> 10 ]

\* the values a caller stores into the fields of a query
TextChars == {"a", ","}
Texts == SeqsUpTo(TextChars, MaxTextLen)
FieldTexts == {<<>>, <<"x">>}
StructuredQueries ==
    [ Street : {<<>>, <<"s", "t">>}, City : {<<>>, <<"c", "i">>},
      County : {<<>>, <<"c", "o">>}, State : FieldTexts,
      Country : {<<>>, <<"p", "t">>}, PostalCode : {<<>>, <<"1", " ", "2">>} ]
\* latitude / longitude strings: empty, decimal, negative, not a number
Coords == { <<>>, <<"3", ".", "8">>, <<"-", "9">>, <<"n", " ">> }
Languages == { <<"e", "n">>, <<"p", "t">> }
PlaceIds == { <<"1">>, <<"2", "3">> }
Limits == ((0 - LimitsBelow)..LimitsBelow) \cup ((50 - LimitsAbove)..(50 + LimitsAbove))

\* the endpoints, and fmt.Sprintf("%s/%s?%s", d.baseURL, path, queryString)
endpointSearch == "search"
endpointReverse == "reverse"
endpointStatus == "status"
\* the query of fmt.Sprintf("%s/%s?format=json", d.baseURL, endpointStatus)
StatusQueryString == << [key |-> keyFormat, value |-> <<"j", "s", "o", "n">>] >>
Endpoint(path, queryString) == [base |-> "baseURL", path |-> path, query |-> queryString]
NoEndpoint == [base |-> "", path |-> "", query |-> <<>>]
\* the fields of a query that are slices
SliceFields(t) == IF t = "search" THEN {"AcceptLanguage", "ExcludedPlaces"} ELSE {"AcceptLanguage"}

\* the keys and values of an encoded query string
KeysOf(out) == { out[i].key : i \in 1..Len(out) }
ValueOf(out, k) == out[CHOOSE i \in 1..Len(out) : out[i].key = k].value

\* ------------------------------------------------------------------
\* State
\* ------------------------------------------------------------------
VARIABLES
    calls,       \* the invocations that are made in this run
    op,          \* op[c]: the handler invoked by call c ("none" before it)
    ctx,         \* ctx[c]: "active", or the cause the context was ended with
    callerPc,    \* "idle", "select", "parked", "woken", "done"
    workerPc,    \* "idle", "get", "sendTransportErr", "sendDecodeErr",
                 \* "sendServiceErr", "sendResult", "done"
    getErr,      \* getErr[c]: the err of d.client.Get: "pending", "nil", "err"
    decoded,     \* decoded[c]: the worker's decode target and decode error
    resultChan,  \* resultsChan / resultChan / statusChan: buffered values
    errChan,     \* errChan: buffered errors
    ret,         \* ret[c]: the (value, error) pair the handler returns
    cancelAt,    \* cancelAt[c]: what the worker had done when ctx ended
    nret,        \* nret[c]: number of times call c returned to its caller
    ngets,       \* ngets[c]: number of GETs issued for call c
    nerrSends,   \* nerrSends[c]: completed sends on errChan
    nresSends,   \* nresSends[c]: completed sends on the result channel
    qtype,       \* "search" or "reverse": the query the caller works on;
                 \* "status" for a CheckStatus call, which has no query
    sq,          \* the SearchQuery a caller is filling in
    rq,          \* the ReverseQuery a caller is filling in
    hq,          \* the handler's parameter `query`: its by-value copy
    q0,          \* the value the query had when the handler was invoked
    shared,      \* the slice fields of hq whose backing array the caller's
                 \* query still points to
    endpoint,    \* the handler's local `endpoint`
    request,     \* the URL the worker passed to d.client.Get
    nsets,       \* number of field assignments made to sq
    qpc,         \* "filling", or "built" once buildQueryString has run
    queryStr     \* what buildQueryString returned

execVars == <<calls, op, ctx, callerPc, workerPc, getErr, decoded, resultChan, errChan,
              ret, cancelAt, nret, ngets, nerrSends, nresSends>>
urlVars == <<hq, q0, shared, endpoint, request>>
queryVars == <<qtype, sq, rq, nsets, qpc, queryStr, urlVars>>
vars == <<execVars, queryVars>>

\* the client after NewClient, with no handler entered, and a fresh query
InitCalls(ids) ==
    /\ calls = ids
    /\ op = [c \in CallIds |-> "none"]
    /\ ctx = [c \in CallIds |-> "active"]
    /\ callerPc = [c \in CallIds |-> "idle"]
    /\ workerPc = [c \in CallIds |-> "idle"]
    /\ getErr = [c \in CallIds |-> "pending"]
    /\ decoded = [c \in CallIds |-> NoDecoded]
    /\ resultChan = [c \in CallIds |-> <<>>]
    /\ errChan = [c \in CallIds |-> <<>>]
    /\ ret = [c \in CallIds |-> NoRet]
    /\ cancelAt = [c \in CallIds |-> "never"]
    /\ nret = [c \in CallIds |-> 0]
    /\ ngets = [c \in CallIds |-> 0]
    /\ nerrSends = [c \in CallIds |-> 0]
    /\ nresSends = [c \in CallIds |-> 0]
    /\ qtype = "search"
    /\ sq = NewSearchQuery
    /\ rq = NewReverseQuery(<<>>, <<>>)
    /\ nsets = 0
    /\ qpc = "filling"
    /\ queryStr = <<>>
    /\ hq = NewSearchQuery
    /\ q0 = NewSearchQuery
    /\ shared = {}
    /\ endpoint = NoEndpoint
    /\ request = NoEndpoint

\* one invocation at a time
Init == InitCalls({1})

\* ------------------------------------------------------------------
\* The handlers' return statements
\* ------------------------------------------------------------------
\* mutant: the result case returns the zero value instead of what it received
RetResult_Zero(o, v) == [val |-> ZeroValue(o), err |-> NilErr]
\* case results := <-resultsChan: return results, nil
RetResult(o, v) == [val |-> v, err |-> NilErr]
\* mutant: the error case of Search returns an empty slice instead of nil
RetErr_EmptySlice(o, e) == [val |-> IF o = "Search" THEN Slice(<<>>) ELSE ZeroValue(o), err |-> e]
\* case err := <-errChan: return nil, err
RetErr(o, e) == [val |-> ZeroValue(o), err |-> e]
\* mutant: the ctx.Done() case returns a nil error
RetCtx_NilErr(o, cause) == [val |-> ZeroValue(o), err |-> NilErr]
\* case <-ctx.Done(): return nil, ctx.Err()
RetCtx(o, cause) == [val |-> ZeroValue(o), err |-> CtxErr(cause)]

\* ------------------------------------------------------------------
\* Channel operations
\* ------------------------------------------------------------------
\* a send can proceed: a receiver is parked in select, or the buffer has room
CanSend(c, ch) == callerPc[c] = "parked" \/ Len(ch[c]) < ChanCap

\* mutant: errChan is one channel of the client, shared by all its calls
SendErr_Shared(c, e) ==
    LET t == 1
    IN /\ CanSend(t, errChan)
       /\ nerrSends' = [nerrSends EXCEPT ![c] = @ + 1]
       /\ IF callerPc[t] = "parked"
          THEN /\ callerPc' = [callerPc EXCEPT ![t] = "woken"]
               /\ ret' = [ret EXCEPT ![t] = RetErr(op[t], e)]
               /\ UNCHANGED errChan
          ELSE /\ errChan' = [errChan EXCEPT ![t] = Append(@, e)]
               /\ UNCHANGED <<callerPc, ret>>

\* errChan <- e : handed to the parked caller, else buffered
SendErr(c, e) ==
    /\ CanSend(c, errChan)
    /\ nerrSends' = [nerrSends EXCEPT ![c] = @ + 1]
    /\ IF callerPc[c] = "parked"
       THEN /\ callerPc' = [callerPc EXCEPT ![c] = "woken"]
            /\ ret' = [ret EXCEPT ![c] = RetErr(op[c], e)]
            /\ UNCHANGED errChan
       ELSE /\ errChan' = [errChan EXCEPT ![c] = Append(@, e)]
            /\ UNCHANGED <<callerPc, ret>>

\* resultChan <- v : handed to the parked caller, else buffered
SendResult(c, v) ==
    /\ CanSend(c, resultChan)
    /\ nresSends' = [nresSends EXCEPT ![c] = @ + 1]
    /\ IF callerPc[c] = "parked"
       THEN /\ callerPc' = [callerPc EXCEPT ![c] = "woken"]
            /\ ret' = [ret EXCEPT ![c] = RetResult(op[c], v)]
            /\ UNCHANGED resultChan
       ELSE /\ resultChan' = [resultChan EXCEPT ![c] = Append(@, v)]
            /\ UNCHANGED <<callerPc, ret>>

\* ------------------------------------------------------------------
\* The caller: Search / Reverse / CheckStatus up to and through select
\* ------------------------------------------------------------------
\* mutant: the handler tests ctx.Err() first and starts no worker for a
\* context that has already ended
Invoke_CheckCtx(c, o) ==
    /\ callerPc[c] = "idle"
    /\ op' = [op EXCEPT ![c] = o]
    /\ resultChan' = [resultChan EXCEPT ![c] = <<>>]
    /\ errChan' = [errChan EXCEPT ![c] = <<>>]
    /\ IF ctx[c] = "active"
       THEN /\ callerPc' = [callerPc EXCEPT ![c] = "select"]
            /\ workerPc' = [workerPc EXCEPT ![c] = "get"]
            /\ UNCHANGED ret
       ELSE /\ callerPc' = [callerPc EXCEPT ![c] = "woken"]
            /\ ret' = [ret EXCEPT ![c] = RetCtx(o, ctx[c])]
            /\ UNCHANGED workerPc
    /\ UNCHANGED <<ctx, getErr, decoded, cancelAt, nret, ngets, nerrSends, nresSends>>
    /\ UNCHANGED <<calls, queryVars>>

\* the handler is entered: both channels are made, the worker is started
Invoke(c, o) ==
    /\ callerPc[c] = "idle"
    /\ op' = [op EXCEPT ![c] = o]
    /\ resultChan' = [resultChan EXCEPT ![c] = <<>>]
    /\ errChan' = [errChan EXCEPT ![c] = <<>>]
    /\ callerPc' = [callerPc EXCEPT ![c] = "select"]
    /\ workerPc' = [workerPc EXCEPT ![c] = "get"]
    /\ UNCHANGED <<ctx, getErr, decoded, ret, cancelAt, nret, ngets, nerrSends, nresSends>>
    /\ UNCHANGED <<calls, queryVars>>

\* select finds resultChan ready and takes that case
CallerRecvResult(c) ==
    /\ callerPc[c] = "select"
    /\ resultChan[c] # <<>>
    /\ ret' = [ret EXCEPT ![c] = RetResult(op[c], Head(resultChan[c]))]
    /\ resultChan' = [resultChan EXCEPT ![c] = Tail(@)]
    /\ callerPc' = [callerPc EXCEPT ![c] = "done"]
    /\ nret' = [nret EXCEPT ![c] = @ + 1]
    /\ UNCHANGED <<op, ctx, workerPc, getErr, decoded, errChan, cancelAt, ngets, nerrSends, nresSends>>
    /\ UNCHANGED <<calls, queryVars>>

\* select finds errChan ready and takes that case
CallerRecvErr(c) ==
    /\ callerPc[c] = "select"
    /\ errChan[c] # <<>>
    /\ ret' = [ret EXCEPT ![c] = RetErr(op[c], Head(errChan[c]))]
    /\ errChan' = [errChan EXCEPT ![c] = Tail(@)]
    /\ callerPc' = [callerPc EXCEPT ![c] = "done"]
    /\ nret' = [nret EXCEPT ![c] = @ + 1]
    /\ UNCHANGED <<op, ctx, workerPc, getErr, decoded, resultChan, cancelAt, ngets, nerrSends, nresSends>>
    /\ UNCHANGED <<calls, queryVars>>

\* select finds ctx.Done() closed and takes that case
CallerCtxDone(c) ==
    /\ callerPc[c] = "select"
    /\ ctx[c] # "active"
    /\ ret' = [ret EXCEPT ![c] = RetCtx(op[c], ctx[c])]
    /\ callerPc' = [callerPc EXCEPT ![c] = "done"]
    /\ nret' = [nret EXCEPT ![c] = @ + 1]
    /\ UNCHANGED <<op, ctx, workerPc, getErr, decoded, resultChan, errChan, cancelAt, ngets, nerrSends, nresSends>>
    /\ UNCHANGED <<calls, queryVars>>

\* select finds no case ready: the caller blocks on all three
CallerPark(c) ==
    /\ callerPc[c] = "select"
    /\ resultChan[c] = <<>>
    /\ errChan[c] = <<>>
    /\ ctx[c] = "active"
    /\ callerPc' = [callerPc EXCEPT ![c] = "parked"]
    /\ UNCHANGED <<op, ctx, workerPc, getErr, decoded, resultChan, errChan, ret, cancelAt, nret, ngets, nerrSends, nresSends>>
    /\ UNCHANGED <<calls, queryVars>>

\* the caller, woken with the case that fired, returns it
CallerReturn(c) ==
    /\ callerPc[c] = "woken"
    /\ callerPc' = [callerPc EXCEPT ![c] = "done"]
    /\ nret' = [nret EXCEPT ![c] = @ + 1]
    /\ UNCHANGED <<op, ctx, workerPc, getErr, decoded, resultChan, errChan, ret, cancelAt, ngets, nerrSends, nresSends>>
    /\ UNCHANGED <<calls, queryVars>>

\* ------------------------------------------------------------------
\* The context
\* ------------------------------------------------------------------
\* mutant: select has no ctx.Done() case, so ending the context wakes nobody
Cancel_NoWake(c, cause) ==
    /\ ctx[c] = "active"
    /\ callerPc[c] # "done"
    /\ ctx' = [ctx EXCEPT ![c] = cause]
    /\ cancelAt' = [cancelAt EXCEPT ![c] =
          IF nerrSends[c] + nresSends[c] = 0 THEN "beforeDelivery" ELSE "afterDelivery"]
    /\ UNCHANGED <<op, callerPc, ret, workerPc, getErr, decoded, resultChan, errChan, nret, ngets, nerrSends, nresSends>>
    /\ UNCHANGED <<calls, queryVars>>

\* the deadline passes or cancel() is called while the handler still uses ctx
Cancel(c, cause) ==
    /\ ctx[c] = "active"
    /\ callerPc[c] # "done"
    /\ ctx' = [ctx EXCEPT ![c] = cause]
    /\ cancelAt' = [cancelAt EXCEPT ![c] =
          IF nerrSends[c] + nresSends[c] = 0 THEN "beforeDelivery" ELSE "afterDelivery"]
    /\ IF callerPc[c] = "parked"
       THEN /\ callerPc' = [callerPc EXCEPT ![c] = "woken"]
            /\ ret' = [ret EXCEPT ![c] = RetCtx(op[c], cause)]
       ELSE UNCHANGED <<callerPc, ret>>
    /\ UNCHANGED <<op, workerPc, getErr, decoded, resultChan, errChan, nret, ngets, nerrSends, nresSends>>
    /\ UNCHANGED <<calls, queryVars>>

\* ------------------------------------------------------------------
\* The worker goroutine
\* ------------------------------------------------------------------
\* where the worker goes after the decode error check
AfterDecodeCheck(o, d) ==
    IF o = "Reverse" /\ d.Error.Code > 0 THEN "sendServiceErr" ELSE "sendResult"

\* mutant: after a failed Get the worker issues the request again
AfterGet_Retry(o, r) ==
    IF ~r.ok THEN "get"
    ELSE IF Decode(o, r.body).err THEN "sendDecodeErr"
    ELSE AfterDecodeCheck(o, Decode(o, r.body))

\* where the worker goes after d.client.Get and Decode
AfterGet(o, r) ==
    IF ~r.ok THEN "sendTransportErr"
    ELSE IF Decode(o, r.body).err THEN "sendDecodeErr"
    ELSE AfterDecodeCheck(o, Decode(o, r.body))

\* getErr, err := d.client.Get(endpoint), then Decode of the body
WorkerGet(c, r) ==
    /\ workerPc[c] = "get"
    /\ getErr' = [getErr EXCEPT ![c] = IF r.ok THEN "nil" ELSE "err"]
    /\ ngets' = [ngets EXCEPT ![c] = @ + 1]
    /\ decoded' = [decoded EXCEPT ![c] = IF r.ok THEN Decode(op[c], r.body) ELSE @]
    /\ workerPc' = [workerPc EXCEPT ![c] = AfterGet(op[c], r)]
    /\ UNCHANGED <<op, ctx, callerPc, resultChan, errChan, ret, cancelAt, nret, nerrSends, nresSends>>
    /\ UNCHANGED <<calls, queryVars>>

\* mutant: the return after errChan <- err is missing
WorkerSendTransportErr_NoReturn(c) ==
    /\ workerPc[c] = "sendTransportErr"
    /\ SendErr(c, TransportErr)
    /\ workerPc' = [workerPc EXCEPT ![c] = "sendResult"]
    /\ UNCHANGED <<op, ctx, getErr, decoded, resultChan, cancelAt, nret, ngets, nresSends>>
    /\ UNCHANGED <<calls, queryVars>>

\* if err != nil { errChan <- err; return }   (after Get)
WorkerSendTransportErr(c) ==
    /\ workerPc[c] = "sendTransportErr"
    /\ SendErr(c, TransportErr)
    /\ workerPc' = [workerPc EXCEPT ![c] = "done"]
    /\ UNCHANGED <<op, ctx, getErr, decoded, resultChan, cancelAt, nret, ngets, nresSends>>
    /\ UNCHANGED <<calls, queryVars>>

\* mutant: the decode error is sent on errChan a second time
WorkerSendDecodeErr_Resend(c) ==
    /\ workerPc[c] = "sendDecodeErr"
    /\ SendErr(c, DecodeErr)
    /\ workerPc' = [workerPc EXCEPT ![c] = "sendTransportErr"]
    /\ UNCHANGED <<op, ctx, getErr, decoded, resultChan, cancelAt, nret, ngets, nresSends>>
    /\ UNCHANGED <<calls, queryVars>>

\* if err = Decode(...); err != nil { errChan <- err }
WorkerSendDecodeErr(c) ==
    /\ workerPc[c] = "sendDecodeErr"
    /\ SendErr(c, DecodeErr)
    /\ workerPc' = [workerPc EXCEPT ![c] = AfterDecodeCheck(op[c], decoded[c])]
    /\ UNCHANGED <<op, ctx, getErr, decoded, resultChan, cancelAt, nret, ngets, nresSends>>
    /\ UNCHANGED <<calls, queryVars>>

\* if result.Error.Code > 0 { errChan <- result.Error }   (Reverse only)
WorkerSendServiceErr(c) ==
    /\ workerPc[c] = "sendServiceErr"
    /\ SendErr(c, ServiceErr(decoded[c].Error))
    /\ workerPc' = [workerPc EXCEPT ![c] = "sendResult"]
    /\ UNCHANGED <<op, ctx, getErr, decoded, resultChan, cancelAt, nret, ngets, nresSends>>
    /\ UNCHANGED <<calls, queryVars>>

\* resultsChan <- results / resultChan <- result.Result / statusChan <- *status
WorkerSendResult(c) ==
    /\ workerPc[c] = "sendResult"
    /\ SendResult(c, decoded[c].val)
    /\ workerPc' = [workerPc EXCEPT ![c] = "done"]
    /\ UNCHANGED <<op, ctx, getErr, decoded, errChan, cancelAt, nret, ngets, nerrSends>>
    /\ UNCHANGED <<calls, queryVars>>

Next ==
    \/ \E c \in calls, o \in Ops : Invoke(c, o)
    \/ \E c \in calls : CallerRecvResult(c)
    \/ \E c \in calls : CallerRecvErr(c)
    \/ \E c \in calls : CallerCtxDone(c)
    \/ \E c \in calls : CallerPark(c)
    \/ \E c \in calls : CallerReturn(c)
    \/ \E c \in calls, cause \in CtxCauses : Cancel(c, cause)
    \/ \E c \in calls, r \in Responses : WorkerGet(c, r)
    \/ \E c \in calls : WorkerSendTransportErr(c)
    \/ \E c \in calls : WorkerSendDecodeErr(c)
    \/ \E c \in calls : WorkerSendServiceErr(c)
    \/ \E c \in calls : WorkerSendResult(c)

Spec == Init /\ [][Next]_vars

\* two invocations in flight on one client, from two goroutines
ConcSpec == InitCalls(CallIds) /\ [][Next]_vars

\* ------------------------------------------------------------------
\* A caller fills in a SearchQuery and has its query string built
\* ------------------------------------------------------------------
\* query.<field> = v
SetField(f, v) ==
    /\ qpc = "filling" /\ qtype = "search"
    /\ nsets < MaxSets
    /\ sq' = [sq EXCEPT ![f] = v]
    /\ nsets' = nsets + 1
    /\ UNCHANGED <<qtype, rq, qpc, queryStr>>
    /\ UNCHANGED <<execVars, urlVars>>

\* query.SearchStructuredQuery = s
SetStructured(s) ==
    /\ qpc = "filling" /\ qtype = "search"
    /\ nsets < MaxSets
    /\ sq' = [sq EXCEPT !.Street = s.Street, !.City = s.City, !.County = s.County,
                        !.State = s.State, !.Country = s.Country,
                        !.PostalCode = s.PostalCode]
    /\ nsets' = nsets + 1
    /\ UNCHANGED <<qtype, rq, qpc, queryStr>>
    /\ UNCHANGED <<execVars, urlVars>>

\* query.buildQueryString(), as Search calls it on its by-value copy
BuildSearch(seed) ==
    /\ qpc = "filling" /\ qtype = "search"
    /\ queryStr' = SearchBuildQueryString(sq, seed)
    /\ qpc' = "built"
    /\ UNCHANGED <<qtype, sq, rq, nsets>>
    /\ UNCHANGED <<execVars, urlVars>>

\* query := nominatim.NewReverseQuery(latitude, longitude)
ConstructReverse(latitude, longitude) ==
    /\ qpc = "filling" /\ qtype = "search" /\ nsets = 0
    /\ qtype' = "reverse"
    /\ rq' = NewReverseQuery(latitude, longitude)
    /\ UNCHANGED <<sq, nsets, qpc, queryStr>>
    /\ UNCHANGED <<execVars, urlVars>>

\* query.<field> = v on a ReverseQuery
SetReverseField(f, v) ==
    /\ qpc = "filling" /\ qtype = "reverse"
    /\ nsets < MaxSets
    /\ rq' = [rq EXCEPT ![f] = v]
    /\ nsets' = nsets + 1
    /\ UNCHANGED <<qtype, sq, qpc, queryStr>>
    /\ UNCHANGED <<execVars, urlVars>>

\* query.buildQueryString(), as Reverse calls it on its by-value copy
BuildReverse(seed) ==
    /\ qpc = "filling" /\ qtype = "reverse"
    /\ queryStr' = ReverseBuildQueryString(rq, seed)
    /\ qpc' = "built"
    /\ UNCHANGED <<qtype, sq, rq, nsets>>
    /\ UNCHANGED <<execVars, urlVars>>

\* CheckStatus: the query of its endpoint is the fixed text format=json
BuildStatus ==
    /\ qpc = "filling" /\ qtype = "search" /\ nsets = 0
    /\ qtype' = "status"
    /\ queryStr' = StatusQueryString
    /\ qpc' = "built"
    /\ UNCHANGED <<sq, rq, nsets>>
    /\ UNCHANGED <<execVars, urlVars>>

\* a second invocation of the handler with the same query value builds the
\* query string again
BuildAgain(seed) ==
    /\ qpc = "built"
    /\ queryStr' = CASE qtype = "search" -> SearchBuildQueryString(sq, seed)
                      [] qtype = "reverse" -> ReverseBuildQueryString(rq, seed)
                      [] OTHER -> StatusQueryString
    /\ qpc' = "rebuilt"
    /\ UNCHANGED <<qtype, sq, rq, nsets>>
    /\ UNCHANGED <<execVars, urlVars>>

\* ------------------------------------------------------------------
\* A query is passed to Search / Reverse and the caller goes on changing it
\* ------------------------------------------------------------------
\* Search(ctx, query) / Reverse(ctx, query) up to the go statement: the
\* parameter is a copy of the caller's struct, whose slices still point to the
\* caller's backing arrays; the endpoint is formatted; the worker is started
InvokeQuery(seed) ==
    /\ qpc = "filling"
    /\ LET query == IF qtype = "search" THEN sq ELSE rq
       IN /\ hq' = query
          /\ q0' = query
          /\ shared' = { f \in SliceFields(qtype) : Len(query[f]) > 0 }
          /\ endpoint' = IF qtype = "search"
                THEN Endpoint(endpointSearch, SearchBuildQueryString(query, seed))
                ELSE Endpoint(endpointReverse, ReverseBuildQueryString(query, seed))
    /\ qpc' = "started"
    /\ UNCHANGED <<qtype, sq, rq, nsets, queryStr, request>>
    /\ UNCHANGED execVars

\* mutant: the worker formats the URL itself, from the query as it is when
\* the goroutine runs
WorkerRequest_BuildsLate ==
    /\ qpc = "started"
    /\ request' = IF qtype = "search"
          THEN Endpoint(endpointSearch, SearchBuildQueryString(hq, SortedKeys))
          ELSE Endpoint(endpointReverse, ReverseBuildQueryString(hq, SortedKeys))
    /\ qpc' = "requested"
    /\ UNCHANGED <<qtype, sq, rq, nsets, queryStr, hq, q0, shared, endpoint>>
    /\ UNCHANGED execVars

\* the worker: d.client.Get(endpoint), with the endpoint its closure captured
WorkerRequest ==
    /\ qpc = "started"
    /\ request' = endpoint
    /\ qpc' = "requested"
    /\ UNCHANGED <<qtype, sq, rq, nsets, queryStr, hq, q0, shared, endpoint>>
    /\ UNCHANGED execVars

\* query.<field> = v by the caller while the worker has not issued its Get:
\* the caller's struct changes, the handler's copy does not; a slice field
\* now points to a new backing array
MutateField(t, f, v) ==
    /\ qpc = "started" /\ qtype = t
    /\ nsets < MaxSets
    /\ IF qtype = "search"
       THEN sq' = [sq EXCEPT ![f] = v] /\ UNCHANGED rq
       ELSE rq' = [rq EXCEPT ![f] = v] /\ UNCHANGED sq
    /\ shared' = shared \ {f}
    /\ nsets' = nsets + 1
    /\ UNCHANGED <<qtype, qpc, queryStr, hq, q0, endpoint, request>>
    /\ UNCHANGED execVars

\* query.<field>[i] = v by the caller while the worker has not issued its
\* Get: the element is written in the backing array, which the handler's copy
\* sees as long as it shares it
WriteElem(f, i, v) ==
    /\ qpc = "started"
    /\ nsets < MaxSets
    /\ f \in SliceFields(qtype)
    /\ LET query == IF qtype = "search" THEN sq ELSE rq
       IN /\ i \in 1..Len(query[f])
          /\ IF qtype = "search"
             THEN sq' = [sq EXCEPT ![f][i] = v] /\ UNCHANGED rq
             ELSE rq' = [rq EXCEPT ![f][i] = v] /\ UNCHANGED sq
    /\ hq' = IF f \in shared THEN [hq EXCEPT ![f][i] = v] ELSE hq
    /\ nsets' = nsets + 1
    /\ UNCHANGED <<qtype, qpc, queryStr, q0, shared, endpoint, request>>
    /\ UNCHANGED execVars

UrlNext ==
    \/ \E v \in Texts : SetField("FreeFormQuery", v)
    \/ \E v \in SeqsUpTo(PlaceIds, MaxListLen) : SetField("ExcludedPlaces", v)
    \/ \E v \in SeqsUpTo(Languages, MaxListLen) : SetField("AcceptLanguage", v)
    \/ \E la \in Coords, lo \in Coords : ConstructReverse(la, lo)
    \/ \E v \in SeqsUpTo(Languages, MaxListLen) : SetReverseField("AcceptLanguage", v)
    \/ \E seed \in MapSeeds : InvokeQuery(seed)
    \/ \E v \in Texts : MutateField("search", "FreeFormQuery", v)
    \/ \E v \in Coords : MutateField("reverse", "Latitude", v)
    \/ \E t \in {"search", "reverse"}, v \in SeqsUpTo(Languages, MaxListLen) :
          MutateField(t, "AcceptLanguage", v)
    \/ \E i \in 1..MaxListLen, v \in Languages : WriteElem("AcceptLanguage", i, v)
    \/ \E i \in 1..MaxListLen, v \in PlaceIds : WriteElem("ExcludedPlaces", i, v)
    \/ WorkerRequest
UrlSpec == Init /\ [][UrlNext]_vars

QueryNext ==
    \/ \E s \in StructuredQueries : SetStructured(s)
    \/ \E v \in Texts : SetField("FreeFormQuery", v)
    \/ \E f \in {"AddressDetails", "ExtraTags", "NameDetails"}, v \in BOOLEAN : SetField(f, v)
    \/ \E v \in SeqsUpTo(Languages, MaxListLen) : SetField("AcceptLanguage", v)
    \/ \E v \in SeqsUpTo(PlaceIds, MaxListLen) : SetField("ExcludedPlaces", v)
    \/ \E v \in Limits : SetField("Limit", v)
    \/ \E seed \in MapSeeds : BuildSearch(seed)
    \/ \E la \in Coords, lo \in Coords : ConstructReverse(la, lo)
    \/ \E f \in {"Latitude", "Longitude"}, v \in Coords : SetReverseField(f, v)
    \/ \E f \in {"AddressDetails", "ExtraTags", "NameDetails"}, v \in BOOLEAN : SetReverseField(f, v)
    \/ \E v \in SeqsUpTo(Languages, MaxListLen) : SetReverseField("AcceptLanguage", v)
    \/ \E seed \in MapSeeds : BuildReverse(seed)
    \/ BuildStatus
    \/ \E seed \in MapSeeds : BuildAgain(seed)

QuerySpec == Init /\ [][QueryNext]_vars

\* the handlers run under a fair scheduler: a caller that can take a step of
\* its select takes it, and a worker whose send can proceed performs it; the
\* network is under no obligation to answer and nobody has to cancel
CallerStep(c) ==
    CallerRecvResult(c) \/ CallerRecvErr(c) \/ CallerCtxDone(c) \/ CallerPark(c) \/ CallerReturn(c)
WorkerSendStep(c) ==
    \/ WorkerSendTransportErr(c)
    \/ WorkerSendDecodeErr(c)
    \/ WorkerSendServiceErr(c)
    \/ WorkerSendResult(c)
FairSpec ==
    Spec /\ \A c \in CallIds : WF_vars(CallerStep(c)) /\ WF_vars(WorkerSendStep(c))

\* ------------------------------------------------------------------
\* Properties
\* ------------------------------------------------------------------
Returned(c) == callerPc[c] = "done"
\* the context was still active when the call returned
NeverCancelled(c) == ctx[c] = "active"
Delivered(c) == nerrSends[c] + nresSends[c]
StructuredKeys == {keyStreet, keyCity, keyCounty, keyState, keyCountry, keyPostalCode}

\* everything the model holds about call c
PerCall(c) ==
    << op[c], ctx[c], callerPc[c], workerPc[c], getErr[c], decoded[c], resultChan[c],
       errChan[c], ret[c], cancelAt[c], nret[c], ngets[c], nerrSends[c], nresSends[c] >>
\* what call c holds in ret was produced by its own worker or its own context
OwnOutcome(c) ==
    \/ ctx[c] # "active" /\ ret[c] = [val |-> ZeroValue(op[c]), err |-> CtxErr(ctx[c])]
    \/ /\ getErr[c] = "nil" /\ nresSends[c] = 1
       /\ ret[c] = [val |-> decoded[c].val, err |-> NilErr]
    \/ /\ getErr[c] = "err" /\ nerrSends[c] = 1
       /\ ret[c] = [val |-> ZeroValue(op[c]), err |-> TransportErr]
    \/ /\ getErr[c] = "nil" /\ decoded[c].err /\ nerrSends[c] >= 1
       /\ ret[c] = [val |-> ZeroValue(op[c]), err |-> DecodeErr]
    \/ /\ getErr[c] = "nil" /\ op[c] = "Reverse" /\ nerrSends[c] >= 1
       /\ ret[c] = [val |-> ZeroValue(op[c]), err |-> ServiceErr(decoded[c].Error)]

\* the number of key=value pairs of an encoded query string with key k
Occurrences(out, k) == Cardinality({ i \in 1..Len(out) : out[i].key = k })
\* the query string of the query type t has been built
Built(t) == qpc = "built" /\ qtype = t
\* the structured fields of a SearchQuery and their wire keys
StructuredFields ==
    { <<"Street", keyStreet>>, <<"City", keyCity>>, <<"County", keyCounty>>,
      <<"State", keyState>>, <<"Country", keyCountry>>, <<"PostalCode", keyPostalCode>> }

\* strconv.Atoi of a decimal string, the inverse of Itoa
DigitValue(ch) == CHOOSE d \in 0..9 : Digits[d + 1] = ch
RECURSIVE AtoiNat(_)
AtoiNat(s) ==
    IF Len(s) = 1 THEN DigitValue(s[1])
    ELSE 10 * AtoiNat(SubSeq(s, 1, Len(s) - 1)) + DigitValue(s[Len(s)])
Atoi(s) == IF Head(s) = "-" THEN 0 - AtoiNat(Tail(s)) ELSE AtoiNat(s)

\* strings.Split(s, ","), the inverse of Join for elements without a comma
RECURSIVE SplitComma(_)
SplitComma(s) ==
    IF \A i \in 1..Len(s) : s[i] # "," THEN <<s>>
    ELSE LET i == CHOOSE j \in 1..Len(s) : s[j] = "," /\ \A k \in 1..(j - 1) : s[k] # ","
         IN <<SubSeq(s, 1, i - 1)>> \o SplitComma(SubSeq(s, i + 1, Len(s)))

\* url.QueryUnescape, the inverse a server applies to a received value
RECURSIVE QueryUnescape(_)
QueryUnescape(s) ==
    IF s = <<>> THEN <<>>
    ELSE IF Head(s) = "+" THEN <<" ">> \o QueryUnescape(Tail(s))
    ELSE IF Head(s) = "%" /\ Len(s) >= 3
         THEN LET code == <<s[2], s[3]>>
                  ch == CASE code = <<"2", "C">> -> ","
                          [] code = <<"2", "6">> -> "&"
                          [] code = <<"3", "D">> -> "="
                          [] code = <<"2", "B">> -> "+"
                          [] code = <<"2", "5">> -> "%"
                          [] OTHER -> "?"
              IN <<ch>> \o QueryUnescape(SubSeq(s, 4, Len(s)))
    ELSE <<Head(s)>> \o QueryUnescape(Tail(s))

C2_ServiceErrorReturned ==
    \A c \in calls :
        ( /\ Returned(c) /\ op[c] = "Reverse" /\ NeverCancelled(c)
          /\ getErr[c] = "nil" /\ ~decoded[c].err /\ decoded[c].Error.Code # 0 )
        => ret[c] = [val |-> ZeroResult, err |-> ServiceErr(decoded[c].Error)]

\* C3: a Search call, never cancelled, whose body does not decode into an
\* array of results returns a nil slice with the decode error.
C3_SearchDecodeError ==
    \A c \in calls :
        ( /\ Returned(c) /\ op[c] = "Search" /\ NeverCancelled(c)
          /\ getErr[c] = "nil" /\ decoded[c].err )
        => ret[c] = [val |-> NilSlice, err |-> DecodeErr]

\* C4: a Reverse or CheckStatus call, never cancelled, whose body does not
\* decode returns the zero value with a non-nil error.
C4_ObjectDecodeError ==
    \A c \in calls :
        ( /\ Returned(c) /\ op[c] \in {"Reverse", "CheckStatus"} /\ NeverCancelled(c)
          /\ getErr[c] = "nil" /\ decoded[c].err )
        => (ret[c].err # NilErr /\ ret[c].val = ZeroValue(op[c]))

\* C5: every invocation returns exactly once: never twice, with one of the
\* five kinds of outcome; it does return once the network call has completed
\* or the context has ended; and after the context has ended the caller's
\* return is a step the caller can take by itself.
OutcomeKinds == {"nil", "transport", "decode", "nominatim.Error"} \cup CtxCauses
C5_ExactlyOneOutcome ==
    /\ [](\A c \in calls :
            /\ nret[c] <= 1
            /\ (Returned(c) <=> nret[c] = 1)
            /\ (Returned(c) => ret[c].err.kind \in OutcomeKinds))
    /\ \A c \in CallIds :
          (op[c] # "none" /\ (getErr[c] # "pending" \/ ctx[c] # "active"))
              ~> Returned(c)
    /\ [](\A c \in calls :
            (op[c] # "none" /\ ctx[c] # "active" /\ ~Returned(c))
                => ENABLED (CallerCtxDone(c) \/ CallerReturn(c)))

\* C5 witness: the call has returned through cancellation while the network
\* call is still outstanding
C5_Witness ==
    \E c \in calls :
        /\ Returned(c) /\ nret[c] = 1
        /\ ret[c].err.kind \in CtxCauses
        /\ getErr[c] = "pending" /\ workerPc[c] = "get"

\* C6: once the caller has returned through cancellation, no send the worker
\* is about to make finds its channel full.
C6_LateSendNeverBlocks ==
    \A c \in calls :
        (Returned(c) /\ ret[c].err.kind \in CtxCauses)
        => /\ workerPc[c] \in {"sendTransportErr", "sendDecodeErr", "sendServiceErr"}
                => Len(errChan[c]) < ChanCap
           /\ workerPc[c] = "sendResult" => Len(resultChan[c]) < ChanCap

\* C7: when d.client.Get fails the worker sends nothing on the result channel,
\* and a call that was never cancelled returns the zero value with the
\* transport error.
C7_TransportError ==
    \A c \in calls :
        getErr[c] = "err"
        => /\ nresSends[c] = 0 /\ resultChan[c] = <<>>
           /\ (Returned(c) /\ NeverCancelled(c))
                => ret[c] = [val |-> ZeroValue(op[c]), err |-> TransportErr]

\* C7 witness: a call that was never cancelled returned the transport error
C7_Witness ==
    \E c \in calls :
        /\ Returned(c) /\ NeverCancelled(c) /\ getErr[c] = "err"
        /\ ret[c].err = TransportErr /\ workerPc[c] = "done"

\* C8: a call that was never cancelled, whose transport call succeeded, whose
\* body decoded without error and (for Reverse) with embedded error code 0,
\* returns the decoded value with a nil error; an empty array gives Search
\* an empty sequence.
C8_SuccessPassthrough ==
    \A c \in calls :
        ( /\ Returned(c) /\ NeverCancelled(c) /\ getErr[c] = "nil"
          /\ ~decoded[c].err
          /\ (op[c] = "Reverse" => decoded[c].Error.Code = 0) )
        => /\ ret[c] = [val |-> decoded[c].val, err |-> NilErr]
           /\ ret[c].val.type = ZeroValue(op[c]).type
           /\ (op[c] = "Search" /\ decoded[c].val = Slice(<<>>))
                => (ret[c].val.elems = <<>> /\ ~ret[c].val.nil)

\* C8 witness: Search, never cancelled, returned a decoded non-empty array
C8_Witness ==
    \E c \in calls :
        /\ Returned(c) /\ NeverCancelled(c) /\ op[c] = "Search"
        /\ getErr[c] = "nil" /\ ~decoded[c].err
        /\ ret[c].err = NilErr /\ Len(ret[c].val.elems) = MaxResults

\* C9: a returned non-nil error always comes with the zero value.
C9_ErrorImpliesZeroValue ==
    \A c \in calls :
        (Returned(c) /\ ret[c].err # NilErr) => ret[c].val = ZeroValue(op[c])

\* C9 witness: Search returned a decode error although the worker's slice
\* was not nil
C9_Witness ==
    \E c \in calls :
        /\ Returned(c) /\ op[c] = "Search" /\ ret[c].err = DecodeErr
        /\ decoded[c].val # NilSlice /\ ret[c].val = NilSlice

\* C10: with a non-empty FreeFormQuery the query string carries the key q with
\* that text and none of the six structured keys.
C10_FreeFormWins ==
    (qpc = "built" /\ sq.FreeFormQuery # <<>>)
    => /\ keyFreeFormQuery \in KeysOf(queryStr)
       /\ QueryUnescape(ValueOf(queryStr, keyFreeFormQuery)) = sq.FreeFormQuery
       /\ KeysOf(queryStr) \cap StructuredKeys = {}

\* C10 witness: a query with free-form text and structured fields was built
C10_Witness ==
    /\ qpc = "built" /\ sq.FreeFormQuery # <<>>
    /\ sq.City # <<>> /\ sq.Street # <<>>
    /\ keyFreeFormQuery \in KeysOf(queryStr)

\* C11: Limit 0 omits the limit key; a negative Limit is sent as 10, a Limit
\* in 1..50 as itself, a Limit above 50 as 50, each as one decimal value.
C11_LimitMapping ==
    Built("search") =>
        /\ sq.Limit = 0 => keyLimit \notin KeysOf(queryStr)
        /\ sq.Limit # 0 =>
              /\ Occurrences(queryStr, keyLimit) = 1
              /\ Atoi(QueryUnescape(ValueOf(queryStr, keyLimit))) =
                    (CASE sq.Limit < 0 -> 10
                       [] sq.Limit > 50 -> 50
                       [] OTHER -> sq.Limit)

\* C11 witness: a Limit above 50 was built into limit=50
C11_Witness ==
    /\ Built("search") /\ sq.Limit > 50
    /\ keyLimit \in KeysOf(queryStr) /\ ValueOf(queryStr, keyLimit) = <<"5", "0">>

\* C12 (as stated): every Limit <= 0, 0 included, is sent as limit=10 and
\* every Limit above 50 as limit=50.
C12_OutOfRangeRemapped ==
    Built("search") =>
        /\ sq.Limit <= 0 =>
              (keyLimit \in KeysOf(queryStr) /\ ValueOf(queryStr, keyLimit) = <<"1", "0">>)
        /\ sq.Limit > 50 =>
              (keyLimit \in KeysOf(queryStr) /\ ValueOf(queryStr, keyLimit) = <<"5", "0">>)

\* C12 (amended): a query with any Limit is built, never rejected; every
\* Limit below 0 is sent as limit=10, every Limit above 50 as limit=50, and
\* Limit 0 sends no limit key at all.
C12_OutOfRangeRemappedOrOmitted ==
    /\ (qpc = "filling" /\ qtype = "search") =>
          \A seed \in MapSeeds : Len(SearchBuildQueryString(sq, seed)) > 0
    /\ Built("search") =>
        /\ sq.Limit < 0 =>
              (keyLimit \in KeysOf(queryStr) /\ ValueOf(queryStr, keyLimit) = <<"1", "0">>)
        /\ sq.Limit > 50 =>
              (keyLimit \in KeysOf(queryStr) /\ ValueOf(queryStr, keyLimit) = <<"5", "0">>)
        /\ sq.Limit = 0 => Occurrences(queryStr, keyLimit) = 0

\* C12 witness: a negative Limit was built into limit=10
C12_Witness ==
    /\ Built("search") /\ sq.Limit < 0
    /\ keyLimit \in KeysOf(queryStr) /\ ValueOf(queryStr, keyLimit) = <<"1", "0">>

\* C13: the query string of a SearchQuery and of a ReverseQuery carries each
\* of addressdetails, extratags and namedetails exactly once, with "1" when
\* the field is true and "0" when it is false.
C13_FlagsAlwaysEmitted ==
    (qpc = "built" /\ qtype \in {"search", "reverse"}) =>
        LET q == IF qtype = "search" THEN sq ELSE rq
            Flag(k, b) ==
                /\ Occurrences(queryStr, k) = 1
                /\ ValueOf(queryStr, k) = IF b THEN <<"1">> ELSE <<"0">>
        IN /\ Flag(keyAddressDetails, q.AddressDetails)
           /\ Flag(keyExtraTags, q.ExtraTags)
           /\ Flag(keyNameDetails, q.NameDetails)

\* C13 witness: a ReverseQuery with AddressDetails false and NameDetails true
\* was built
C13_Witness ==
    /\ Built("reverse") /\ ~rq.AddressDetails /\ rq.NameDetails
    /\ ValueOf(queryStr, keyAddressDetails) = <<"0">>
    /\ ValueOf(queryStr, keyNameDetails) = <<"1">>

\* C14: a non-empty AcceptLanguage (both query types) or ExcludedPlaces
\* (SearchQuery) list is sent as one key whose value, once unescaped, splits at
\* its commas into the elements of the list in list order; an empty list sends
\* no key.
C14_ListsJoined ==
    qpc = "built" =>
        LET List(k, list) ==
                /\ list = <<>> => k \notin KeysOf(queryStr)
                /\ list # <<>> =>
                      /\ Occurrences(queryStr, k) = 1
                      /\ SplitComma(QueryUnescape(ValueOf(queryStr, k))) = list
        IN /\ qtype = "search" => List(keyAcceptLanguage, sq.AcceptLanguage)
           /\ qtype = "search" => List(keyExcludePlaces, sq.ExcludedPlaces)
           /\ qtype = "reverse" => List(keyAcceptLanguage, rq.AcceptLanguage)

\* C14 witness: a SearchQuery with two excluded places was built
C14_Witness ==
    /\ Built("search") /\ Len(sq.ExcludedPlaces) = 2
    /\ sq.ExcludedPlaces[1] # sq.ExcludedPlaces[2]
    /\ keyExcludePlaces \in KeysOf(queryStr)

\* C15: building the query string never fails and leaves the query as it
\* was; its pairs are in ascending byte order of their keys; a second
\* invocation on the same query value yields the same string, whatever order
\* the map of parameters is ranged over.
C15_BuildIsPure ==
    /\ [](qpc = "filling" =>
            \A seed \in MapSeeds :
                Len(IF qtype = "search" THEN SearchBuildQueryString(sq, seed)
                                        ELSE ReverseBuildQueryString(rq, seed)) > 0)
    /\ [][
        /\ (qpc # qpc') => (sq' = sq /\ rq' = rq)
        /\ (qpc' # "filling") =>
              \A i \in 1..(Len(queryStr') - 1) : KeyLess(queryStr'[i].key, queryStr'[i + 1].key)
        /\ (qpc = "built" /\ qpc' = "rebuilt") => queryStr' = queryStr ]_vars

\* C15 witness: the query string of a query with several fields set was built
\* twice
C15_Witness ==
    /\ qpc = "rebuilt" /\ qtype = "search" /\ nsets = MaxSets
    /\ sq.City # <<>> /\ sq.ExcludedPlaces # <<>>
    /\ Len(queryStr) > 5

\* C20: with an empty FreeFormQuery the query string carries exactly the
\* structured keys whose fields are non-empty, each once with its field's
\* text, and no key q; with all six fields empty a query string is still built.
C20_StructuredKeysEmitted ==
    (Built("search") /\ sq.FreeFormQuery = <<>>) =>
        /\ keyFreeFormQuery \notin KeysOf(queryStr)
        /\ \A fk \in StructuredFields :
              /\ sq[fk[1]] = <<>> => fk[2] \notin KeysOf(queryStr)
              /\ sq[fk[1]] # <<>> =>
                    /\ Occurrences(queryStr, fk[2]) = 1
                    /\ QueryUnescape(ValueOf(queryStr, fk[2])) = sq[fk[1]]
        /\ queryStr # <<>> /\ keyFormat \in KeysOf(queryStr)

\* C20 witness: County and PostalCode set, Country and FreeFormQuery empty
C20_Witness ==
    /\ Built("search") /\ sq.FreeFormQuery = <<>>
    /\ sq.County # <<>> /\ sq.PostalCode # <<>> /\ sq.Country = <<>>
    /\ keyCounty \in KeysOf(queryStr) /\ keyCountry \notin KeysOf(queryStr)

\* C16: an invocation starts one worker, when it is entered, and that worker
\* performs d.client.Get once: never a second time after any outcome, and
\* exactly once on every path on which it reaches a send or its end.
C16_ExactlyOneGet ==
    [][\A c \in calls :
          /\ ngets'[c] <= 1
          /\ workerPc'[c] \notin {"idle", "get"} => ngets'[c] = 1
          /\ callerPc'[c] # "idle" => workerPc'[c] # "idle"
          /\ (workerPc'[c] = "get" /\ workerPc[c] # "get")
                => (workerPc[c] = "idle" /\ callerPc[c] = "idle")
          /\ callerPc[c] # "idle" => callerPc'[c] # "idle" ]_vars

\* C16 witness: a call returned the transport error of its one Get and the
\* worker has ended
C16_Witness ==
    \E c \in calls :
        /\ Returned(c) /\ workerPc[c] = "done" /\ getErr[c] = "err"
        /\ ngets[c] = 1 /\ ret[c].err = TransportErr

\* C17: with two calls in flight on one client, what a call returns was
\* produced by its own worker or its own context, and every step, the ending
\* of a context included, changes the state of one call only.
C17_CallsAreIndependent ==
    [][ /\ \A c \in calls : (callerPc'[c] \in {"woken", "done"}) => OwnOutcome(c)'
        /\ \A c \in calls, d \in calls :
              (c # d /\ PerCall(c)' # PerCall(c)) => PerCall(d)' = PerCall(d) ]_vars

\* C17 witness: call 1 returned its context's error while call 2, whose
\* context is still active, returned the result of its own worker
C17_Witness ==
    /\ Returned(1) /\ ctx[1] # "active" /\ ret[1].err = CtxErr(ctx[1])
    /\ Returned(2) /\ ctx[2] = "active" /\ ret[2].err = NilErr
    /\ op[2] = "Search" /\ ret[2].val # NilSlice /\ Len(ret[2].val.elems) > 0

\* C18: the worker is started whatever the state of the context, the ending
\* of a context changes nothing of the worker, which can complete its Get with
\* any response; once the Get of a call that returned its context's error
\* completes, the worker deposits an outcome in a channel, and after the
\* return nothing is taken from the channels and the returned value stays.
C18_CancelNotPropagated ==
    /\ [][\A c \in CallIds :
            /\ (callerPc[c] = "idle" /\ callerPc'[c] # "idle") => workerPc'[c] = "get"
            /\ ctx'[c] # ctx[c] =>
                  <<workerPc'[c], getErr'[c], ngets'[c], decoded'[c]>>
                    = <<workerPc[c], getErr[c], ngets[c], decoded[c]>>
            /\ Returned(c) =>
                  /\ ret'[c] = ret[c] /\ callerPc'[c] = "done"
                  /\ Len(resultChan'[c]) >= Len(resultChan[c])
                  /\ Len(errChan'[c]) >= Len(errChan[c]) ]_vars
    /\ [](\A c \in CallIds :
            workerPc[c] = "get" => \A r \in Responses : ENABLED WorkerGet(c, r))
    /\ \A c \in CallIds :
          (Returned(c) /\ ret[c].err = CtxErr(ctx[c]) /\ getErr[c] # "pending")
            ~> (Delivered(c) >= 1 /\ Len(resultChan[c]) + Len(errChan[c]) >= 1)

\* C18 witness: a call returned its context's error before anything was
\* delivered, and the transport error of its worker's Get sits unread in
\* errChan
C18_Witness ==
    \E c \in calls :
        /\ Returned(c) /\ cancelAt[c] = "beforeDelivery"
        /\ ret[c].err = CtxErr(ctx[c])
        /\ workerPc[c] = "done" /\ errChan[c] = <<TransportErr>>

\* C19: the endpoint is formatted once, when the handler is invoked, from the
\* query value of that moment; what the caller assigns to its query or writes
\* into its lists afterwards changes the caller's object, and through a shared
\* list the handler's copy, but neither the endpoint nor the URL the worker
\* requests.
C19_RequestFixedAtInvocation ==
    LET Built0(seed) ==
            IF qtype = "search"
            THEN Endpoint(endpointSearch, SearchBuildQueryString(q0, seed))
            ELSE Endpoint(endpointReverse, ReverseBuildQueryString(q0, seed))
    IN /\ qpc \in {"started", "requested"} => \A seed \in MapSeeds : endpoint = Built0(seed)
       /\ qpc = "requested" => \A seed \in MapSeeds : request = Built0(seed)
       /\ qpc \notin {"started", "requested"} => endpoint = NoEndpoint
       /\ qpc # "requested" => request = NoEndpoint

\* C19 witness: after the invocation the caller wrote into a list the
\* handler's copy shares, so both differ from the invoked value, and the
\* worker has sent its request
C19_Witness ==
    /\ qpc = "requested" /\ qtype = "search"
    /\ sq # q0 /\ hq # q0
    /\ request.query = SearchBuildQueryString(q0, SortedKeys)
    /\ request.query # SearchBuildQueryString(hq, SortedKeys)

\* C21: in a Search or CheckStatus call the worker sends at most once on
\* each channel and no send it is about to make finds its channel full with
\* nobody receiving; once d.client.Get has returned the worker ends, whatever
\* the caller has done.
C21_SingleSendsTerminate ==
    /\ [](\A c \in CallIds :
            op[c] \in {"Search", "CheckStatus"} =>
                /\ nerrSends[c] <= 1 /\ nresSends[c] <= 1
                /\ workerPc[c] \in {"sendTransportErr", "sendDecodeErr"} => CanSend(c, errChan)
                /\ workerPc[c] = "sendResult" => CanSend(c, resultChan))
    /\ \A c \in CallIds :
          (op[c] \in {"Search", "CheckStatus"} /\ getErr[c] # "pending")
            ~> workerPc[c] = "done"

\* C21 witness: a Search call returned through cancellation; its worker then
\* sent the decode error and the slice, one on each channel, and ended
C21_Witness ==
    \E c \in calls :
        /\ op[c] = "Search" /\ Returned(c) /\ ret[c].err = CtxErr(ctx[c])
        /\ cancelAt[c] = "beforeDelivery"
        /\ workerPc[c] = "done" /\ nerrSends[c] = 1 /\ nresSends[c] = 1

\* C22: in a Reverse call the worker sends at most once on the error
\* channel, whatever the response.
C22_ReverseSingleErrSend ==
    \A c \in calls : op[c] = "Reverse" => nerrSends[c] <= 1

\* C23: the query string of every Search and every Reverse request carries
\* the key format exactly once with the value jsonv2, whatever the query
\* holds; the query of a CheckStatus request is format=json and nothing else.
C23_FormatFixed ==
    qpc = "built" =>
        /\ Occurrences(queryStr, keyFormat) = 1
        /\ qtype \in {"search", "reverse"} =>
              QueryUnescape(ValueOf(queryStr, keyFormat)) = <<"j", "s", "o", "n", "v", "2">>
        /\ qtype = "status" =>
              /\ Len(queryStr) = 1
              /\ ValueOf(queryStr, keyFormat) = <<"j", "s", "o", "n">>

\* C23 witness: a ReverseQuery whose fields were assigned was built with
\* format=jsonv2
C23_Witness ==
    /\ Built("reverse") /\ nsets > 0 /\ rq # NewReverseQuery(<<>>, <<>>)
    /\ ValueOf(queryStr, keyFormat) = defaultFormat

\* C24: a limit key in the query string of a SearchQuery holds the decimal
\* text of an integer from 1 to 50, and building the query again with Limit
\* replaced by that integer emits the same limit.
C24_LimitInRangeIdempotent ==
    (Built("search") /\ keyLimit \in KeysOf(queryStr)) =>
        LET text == ValueOf(queryStr, keyLimit)
            emitted == Atoi(text)
        IN /\ \A i \in 1..Len(text) : \E d \in 1..10 : text[i] = Digits[d]
           /\ Len(text) >= 1 /\ emitted \in 1..50
           /\ \A seed \in MapSeeds :
                 LET again == SearchBuildQueryString([sq EXCEPT !.Limit = emitted], seed)
                 IN /\ Occurrences(again, keyLimit) = 1
                    /\ ValueOf(again, keyLimit) = text

\* C24 witness: a Limit inside 1..50 other than the default was built
C24_Witness ==
    /\ Built("search") /\ sq.Limit \in 1..50 /\ sq.Limit # 10
    /\ keyLimit \in KeysOf(queryStr)
    /\ Atoi(ValueOf(queryStr, keyLimit)) = sq.Limit

\* C25: the query string of a ReverseQuery carries lat and lon, each once,
\* with the Latitude and Longitude strings as they are, empty or not a number
\* included, and none of limit, exclude_place_ids, q and the structured keys.
C25_ReverseKeys ==
    Built("reverse") =>
        /\ Occurrences(queryStr, keyLatitude) = 1
        /\ QueryUnescape(ValueOf(queryStr, keyLatitude)) = rq.Latitude
        /\ Occurrences(queryStr, keyLongitude) = 1
        /\ QueryUnescape(ValueOf(queryStr, keyLongitude)) = rq.Longitude
        /\ KeysOf(queryStr) \cap
              ({keyLimit, keyExcludePlaces, keyFreeFormQuery} \cup StructuredKeys) = {}

\* C25 witness: a ReverseQuery with an empty Latitude and a Longitude that is
\* not a number was built
C25_Witness ==
    /\ Built("reverse") /\ rq.Latitude = <<>> /\ rq.Longitude = <<"n", " ">>
    /\ keyLatitude \in KeysOf(queryStr) /\ ValueOf(queryStr, keyLatitude) = <<>>
    /\ ValueOf(queryStr, keyLongitude) = <<"n", "+">>

====
